---- MODULE Spec2Model ----
(***************************************************************************)
(* Model of xperiments/Multimeter/multimeter.py: the SCPI command builders *)
(* MeasureVoltageDC and ConfigCurrentAC and their shared parameter         *)
(* validator _validate_param.                                              *)
(*                                                                         *)
(* Python values are records [tag, s, n]: tag is the runtime type, s the   *)
(* characters of a str (a sequence of one-character strings), n the        *)
(* number: an int's value, a bool's 0/1, a float's value in thousandths.   *)
(***************************************************************************)
EXTENDS Integers, Sequences, FiniteSets, TLC

\* ------------------------------------------------------------------ bounds
\* ints supplied by callers range over -1..MaxInt
MaxInt == 1
\* consecutive command() calls on one instance that the model follows
MaxCalls == 2

\* ------------------------------------------------------- python values
PyStr(chars) == [tag |-> "str", s |-> chars, n |-> 0]
PyInt(i) == [tag |-> "int", s |-> <<>>, n |-> i]
PyFloat(milli) == [tag |-> "float", s |-> <<>>, n |-> milli]
PyBool(b) == [tag |-> "bool", s |-> <<>>, n |-> IF b THEN 1 ELSE 0]
PyNone == [tag |-> "none", s |-> <<>>, n |-> 0]
PyList == [tag |-> "list", s |-> <<>>, n |-> 0]
\* an argument the caller did not pass
Missing == [tag |-> "missing", s |-> <<>>, n |-> 0]
\* a name that is bound to no object
Unbound == [tag |-> "unbound", s |-> <<>>, n |-> 0]

KwMIN == <<"M", "I", "N">>
KwMAX == <<"M", "A", "X">>
KwDEF == <<"D", "E", "F">>

ALLOWED_KEYWORDS == {KwMIN, KwMAX, KwDEF}

LowerLetters ==
  <<"a", "b", "c", "d", "e", "f", "g", "h", "i", "j", "k", "l", "m",
    "n", "o", "p", "q", "r", "s", "t", "u", "v", "w", "x", "y", "z">>

UpperLetters ==
  <<"A", "B", "C", "D", "E", "F", "G", "H", "I", "J", "K", "L", "M",
    "N", "O", "P", "Q", "R", "S", "T", "U", "V", "W", "X", "Y", "Z">>

Digits == <<"0", "1", "2", "3", "4", "5", "6", "7", "8", "9">>

\* str.upper() on one character
UpperChar(c) ==
  IF \E i \in 1..Len(LowerLetters) : LowerLetters[i] = c
  THEN UpperLetters[CHOOSE i \in 1..Len(LowerLetters) : LowerLetters[i] = c]
  ELSE c

\* str.lower() on one character
LowerChar(c) ==
  IF \E i \in 1..Len(UpperLetters) : UpperLetters[i] = c
  THEN LowerLetters[CHOOSE i \in 1..Len(UpperLetters) : UpperLetters[i] = c]
  ELSE c

\* s.upper()
upper(s) == [i \in 1..Len(s) |-> UpperChar(s[i])]

\* str(i) for an int i >= 0
RECURSIVE NatToStr(_)
NatToStr(i) ==
  IF i < 10 THEN <<Digits[i + 1]>>
  ELSE NatToStr(i \div 10) \o <<Digits[(i % 10) + 1]>>

\* str(i) for an int
IntToStr(i) == IF i < 0 THEN <<"-">> \o NatToStr(0 - i) ELSE NatToStr(i)

\* the fractional digits of repr(float): three places, trailing zeros
\* dropped, at least one digit kept
FracDigits(f) ==
  IF f % 100 = 0 THEN <<Digits[(f \div 100) + 1]>>
  ELSE IF f % 10 = 0
       THEN <<Digits[(f \div 100) + 1], Digits[((f \div 10) % 10) + 1]>>
       ELSE <<Digits[(f \div 100) + 1], Digits[((f \div 10) % 10) + 1],
              Digits[(f % 10) + 1]>>

\* str(x) for a float x = milli / 1000 (fixed notation: 1e-4 <= |x| < 1e16)
FloatToStr(milli) ==
  LET a == IF milli < 0 THEN 0 - milli ELSE milli
      sign == IF milli < 0 THEN <<"-">> ELSE <<>>
  IN sign \o NatToStr(a \div 1000) \o <<".">> \o FracDigits(a % 1000)

\* str(value), also what an f-string interpolates
Str(v) ==
  CASE v.tag = "str" -> v.s
    [] v.tag = "int" -> IntToStr(v.n)
    [] v.tag = "float" -> FloatToStr(v.n)
    [] v.tag = "bool" -> IF v.n = 1 THEN <<"T", "r", "u", "e">>
                         ELSE <<"F", "a", "l", "s", "e">>
    [] v.tag = "none" -> <<"N", "o", "n", "e">>
    [] v.tag = "list" -> <<"[", "]">>

\* sep.join(parts)
RECURSIVE join(_, _)
join(sep, parts) ==
  IF Len(parts) = 0 THEN <<>>
  ELSE IF Len(parts) = 1 THEN parts[1]
  ELSE parts[1] \o sep \o join(sep, Tail(parts))

\* s.replace(old, new) for one-character old and new
replace(s, old, new) == [i \in 1..Len(s) |-> IF s[i] = old THEN new ELSE s[i]]

\* value == "DEF"
EqDEF(v) == v.tag = "str" /\ v.s = KwDEF

\* ------------------------------------------------------------- errors
NoErr == [kind |-> "none", name |-> "", value |-> <<>>]

\* ValueError(f"Invalid {name} parameter: {s}")
InvalidErr(name, text) == [kind |-> "Invalid", name |-> name, value |-> text]

\* ValueError(f"Unexpected type for {name} parameter: {value}")
UnexpectedErr(name, text) ==
  [kind |-> "Unexpected type", name |-> name, value |-> text]

\* ValueError("Resolution specified without a valid (non-'DEF') range.")
CrossErr == [kind |-> "Resolution without range", name |-> "", value |-> <<>>]

\* ------------------------------------------------------ _validate_param
\* variant: the keyword test uses the uppercased text, the caller's text
\* is returned
_validate_param_NoUpper(value, name) ==
  IF value.tag = "str"
  THEN LET s == upper(value.s)
       IN IF s \notin ALLOWED_KEYWORDS
          THEN [raised |-> TRUE, value |-> Unbound, err |-> InvalidErr(name, s)]
          ELSE [raised |-> FALSE, value |-> value, err |-> NoErr]
  ELSE IF value.tag \in {"int", "bool", "float"} /\ value.n > 0
       THEN [raised |-> FALSE, value |-> value, err |-> NoErr]
       ELSE [raised |-> TRUE, value |-> Unbound,
             err |-> UnexpectedErr(name, Str(value))]

\* returns [raised, value, err]: the value returned or the error raised
_validate_param(value, name) ==
  IF value.tag = "str"
  THEN LET s == upper(value.s)
       IN IF s \notin ALLOWED_KEYWORDS
          THEN [raised |-> TRUE, value |-> Unbound, err |-> InvalidErr(name, s)]
          ELSE [raised |-> FALSE, value |-> PyStr(s), err |-> NoErr]
  ELSE IF value.tag \in {"int", "bool", "float"} /\ value.n > 0
       THEN [raised |-> FALSE, value |-> value, err |-> NoErr]
       ELSE [raised |-> TRUE, value |-> Unbound,
             err |-> UnexpectedErr(name, Str(value))]

\* ----------------------------------------------------- MeasureVoltageDC
\* the dataclass field defaults: range = "DEF", resolution = "DEF"
FieldDefault(v) == IF v = Missing THEN PyStr(KwDEF) ELSE v

\* variant: the cross-field check is left out
MeasureVoltageDC_post_init_NoCrossCheck(range, resolution) ==
  LET r == _validate_param(range, "range")
      q == _validate_param(resolution, "resolution")
  IN IF r.raised
     THEN [raised |-> TRUE, range |-> Unbound, resolution |-> Unbound,
           err |-> r.err]
     ELSE IF q.raised
     THEN [raised |-> TRUE, range |-> Unbound, resolution |-> Unbound,
           err |-> q.err]
     ELSE [raised |-> FALSE, range |-> r.value, resolution |-> q.value,
           err |-> NoErr]

\* returns [raised, range, resolution, err]: self after __post_init__
MeasureVoltageDC_post_init(range, resolution) ==
  LET r == _validate_param(range, "range")
      q == _validate_param(resolution, "resolution")
  IN IF r.raised
     THEN [raised |-> TRUE, range |-> Unbound, resolution |-> Unbound,
           err |-> r.err]
     ELSE IF q.raised
     THEN [raised |-> TRUE, range |-> Unbound, resolution |-> Unbound,
           err |-> q.err]
     ELSE IF /\ r.value.tag = "str"
             /\ r.value.s = KwDEF
             /\ ~(q.value.tag = "str" /\ q.value.s = KwDEF)
     THEN [raised |-> TRUE, range |-> Unbound, resolution |-> Unbound,
           err |-> CrossErr]
     ELSE [raised |-> FALSE, range |-> r.value, resolution |-> q.value,
           err |-> NoErr]

\* MeasureVoltageDC(range, resolution): the generated __init__ stores the
\* arguments or the field defaults, then runs __post_init__
MeasureVoltageDC_init(range, resolution) ==
  MeasureVoltageDC_post_init(FieldDefault(range), FieldDefault(resolution))

MeasureVoltageDC_base ==
  <<"M", "E", "A", "S", ":", "V", "O", "L", "T", ":", "D", "C", "?">>

\* variant: resolution is appended before range
MeasureVoltageDC_command_ResolutionFirst(range, resolution) ==
  LET base == MeasureVoltageDC_base
      parts == (IF ~EqDEF(resolution) THEN <<Str(resolution)>> ELSE <<>>)
               \o (IF ~EqDEF(range) THEN <<Str(range)>> ELSE <<>>)
  IN IF EqDEF(range) /\ EqDEF(resolution)
     THEN [ret |-> base, range |-> range, resolution |-> resolution]
     ELSE [ret |-> replace(base \o <<" ">> \o join(<<"/">>, parts), "/", ","),
           range |-> range, resolution |-> resolution]

\* variant: the rendered text of range is stored back into self.range
MeasureVoltageDC_command_StoresText(range, resolution) ==
  LET base == MeasureVoltageDC_base
      parts == (IF ~EqDEF(range) THEN <<Str(range)>> ELSE <<>>)
               \o (IF ~EqDEF(resolution) THEN <<Str(resolution)>> ELSE <<>>)
  IN IF EqDEF(range) /\ EqDEF(resolution)
     THEN [ret |-> base, range |-> range, resolution |-> resolution]
     ELSE [ret |-> replace(base \o <<" ">> \o join(<<"/">>, parts), "/", ","),
           range |-> PyStr(Str(range)), resolution |-> resolution]

\* returns [ret, range, resolution]: the string and self after the call
MeasureVoltageDC_command(range, resolution) ==
  LET base == MeasureVoltageDC_base
      parts == (IF ~EqDEF(range) THEN <<Str(range)>> ELSE <<>>)
               \o (IF ~EqDEF(resolution) THEN <<Str(resolution)>> ELSE <<>>)
  IN IF EqDEF(range) /\ EqDEF(resolution)
     THEN [ret |-> base, range |-> range, resolution |-> resolution]
     ELSE [ret |-> replace(base \o <<" ">> \o join(<<"/">>, parts), "/", ","),
           range |-> range, resolution |-> resolution]

\* ------------------------------------------------------ ConfigCurrentAC
\* variant: resolution is validated before range
ConfigCurrentAC_post_init_ResolutionFirst(range, resolution) ==
  LET r == _validate_param(range, "range")
      q == _validate_param(resolution, "resolution")
  IN IF q.raised
     THEN [raised |-> TRUE, range |-> Unbound, resolution |-> Unbound,
           err |-> q.err]
     ELSE IF r.raised
     THEN [raised |-> TRUE, range |-> Unbound, resolution |-> Unbound,
           err |-> r.err]
     ELSE IF /\ r.value.tag = "str"
             /\ r.value.s = KwDEF
             /\ ~(q.value.tag = "str" /\ q.value.s = KwDEF)
     THEN [raised |-> TRUE, range |-> Unbound, resolution |-> Unbound,
           err |-> CrossErr]
     ELSE [raised |-> FALSE, range |-> r.value, resolution |-> q.value,
           err |-> NoErr]

ConfigCurrentAC_post_init(range, resolution) ==
  LET r == _validate_param(range, "range")
      q == _validate_param(resolution, "resolution")
  IN IF r.raised
     THEN [raised |-> TRUE, range |-> Unbound, resolution |-> Unbound,
           err |-> r.err]
     ELSE IF q.raised
     THEN [raised |-> TRUE, range |-> Unbound, resolution |-> Unbound,
           err |-> q.err]
     ELSE IF /\ r.value.tag = "str"
             /\ r.value.s = KwDEF
             /\ ~(q.value.tag = "str" /\ q.value.s = KwDEF)
     THEN [raised |-> TRUE, range |-> Unbound, resolution |-> Unbound,
           err |-> CrossErr]
     ELSE [raised |-> FALSE, range |-> r.value, resolution |-> q.value,
           err |-> NoErr]

ConfigCurrentAC_init(range, resolution) ==
  ConfigCurrentAC_post_init(FieldDefault(range), FieldDefault(resolution))

ConfigCurrentAC_base ==
  <<"C", "O", "N", "F", ":", "C", "U", "R", "R", ":", "A", "C">>

ConfigCurrentAC_command(range, resolution) ==
  LET base == ConfigCurrentAC_base
      parts == (IF ~EqDEF(range) THEN <<Str(range)>> ELSE <<>>)
               \o (IF ~EqDEF(resolution) THEN <<Str(resolution)>> ELSE <<>>)
  IN IF EqDEF(range) /\ EqDEF(resolution)
     THEN [ret |-> base, range |-> range, resolution |-> resolution]
     ELSE [ret |-> replace(base \o <<" ">> \o join(<<"/">>, parts), "/", ","),
           range |-> range, resolution |-> resolution]

\* ------------------------------------------------------------- inputs
\* every mix of letter case of a keyword
Mixes(K) ==
  { [i \in 1..Len(K) |-> IF i \in S THEN LowerChar(K[i]) ELSE K[i]] :
      S \in SUBSET (1..Len(K)) }

\* strings that are no keyword in any letter case
BadStrings == { <<"f", "o", "o">>, <<>>, <<"a", "/", "b">> }

\* floats, in thousandths: -0.5, 0.0, 0.001, 10.0
FloatMillis == {0 - 500, 0, 1, 10000}

Numbers == {PyInt(i) : i \in (0 - 1)..MaxInt} \cup {PyFloat(m) : m \in FloatMillis}

NonNumbers == {PyBool(TRUE), PyBool(FALSE), PyNone, PyList}

\* the values the pure functions are applied to
AllParams ==
  {PyStr(s) : s \in Mixes(KwMIN) \cup Mixes(KwMAX) \cup Mixes(KwDEF) \cup BadStrings}
    \cup Numbers \cup NonNumbers

\* the values a caller constructs an instance from and assigns to its fields
Params ==
  {PyStr(s) : s \in {<<"m", "i", "n">>, <<"m", "a", "x">>, KwMIN, KwDEF,
                     <<"D", "e", "f">>} \cup BadStrings}
    \cup Numbers \cup NonNumbers

\* -------------------------------------------------------------- state
VARIABLES
  inst,     \* the instance the caller holds: [cls, state, range, resolution]
  args,     \* the arguments of the last construction: [range, resolution]
  built,    \* the fields as __post_init__ left them: [range, resolution]
  err,      \* the error the last construction raised, or NoErr
  out,      \* the string the last command() returned, or NoOut
  lastOp,   \* the caller's last operation on inst
  ncalls,   \* command() calls since the last construction or assignment
  vres,     \* per field, the outcome of _validate_param on args[field]
  mv,       \* a MeasureVoltageDC built from args, with its command() result
  cc        \* a ConfigCurrentAC built from args, with its command() result

vars == <<inst, args, built, err, out, lastOp, ncalls, vres, mv, cc>>

NoOut == <<>>

Fields == {"range", "resolution"}

NoInst == [cls |-> "none", state |-> "none", range |-> Unbound,
           resolution |-> Unbound]

NoArgs == [range |-> Missing, resolution |-> Missing]

NoBuilt == [range |-> Unbound, resolution |-> Unbound]

NoCall == [calls |-> 0, raised |-> FALSE, first |-> Unbound,
           value |-> Unbound, err |-> NoErr]

NoVres == [f \in Fields |-> NoCall]

NoSlot == [state |-> "none", range |-> Unbound, resolution |-> Unbound,
           err |-> NoErr, out |-> NoOut]

lifeVars == <<inst, built, err, out, lastOp, ncalls>>

applyVars == <<vres, mv, cc>>

\* ---------------------------------------------- lifecycle of an instance
Init ==
  /\ inst = NoInst
  /\ args = NoArgs
  /\ built = NoBuilt
  /\ err = NoErr
  /\ out = NoOut
  /\ lastOp = "none"
  /\ ncalls = 0
  /\ vres = NoVres
  /\ mv = NoSlot
  /\ cc = NoSlot

\* x = MeasureVoltageDC(range=r, resolution=s); the model follows one
\* instance from its construction on
NewMeasureVoltageDC ==
  \E r \in Params \cup {Missing}, s \in Params \cup {Missing} :
    LET res == MeasureVoltageDC_init(r, s)
    IN /\ inst.state = "none"
       /\ inst' = [cls |-> "MeasureVoltageDC",
                   state |-> IF res.raised THEN "raised" ELSE "ok",
                   range |-> res.range, resolution |-> res.resolution]
       /\ args' = [range |-> r, resolution |-> s]
       /\ built' = [range |-> res.range, resolution |-> res.resolution]
       /\ err' = res.err
       /\ out' = NoOut
       /\ lastOp' = "construct"
       /\ ncalls' = 0
       /\ UNCHANGED applyVars

\* x = ConfigCurrentAC(range=r, resolution=s)
NewConfigCurrentAC ==
  \E r \in Params \cup {Missing}, s \in Params \cup {Missing} :
    LET res == ConfigCurrentAC_init(r, s)
    IN /\ inst.state = "none"
       /\ inst' = [cls |-> "ConfigCurrentAC",
                   state |-> IF res.raised THEN "raised" ELSE "ok",
                   range |-> res.range, resolution |-> res.resolution]
       /\ args' = [range |-> r, resolution |-> s]
       /\ built' = [range |-> res.range, resolution |-> res.resolution]
       /\ err' = res.err
       /\ out' = NoOut
       /\ lastOp' = "construct"
       /\ ncalls' = 0
       /\ UNCHANGED applyVars

\* x.range = v: the dataclass is not frozen, the attribute is rebound
SetRange ==
  \E v \in Params :
    /\ inst.state = "ok"
    /\ inst' = [inst EXCEPT !.range = v]
    /\ out' = NoOut
    /\ lastOp' = "assign"
    /\ ncalls' = 0
    /\ UNCHANGED <<args, built, err, applyVars>>

\* x.resolution = v
SetResolution ==
  \E v \in Params :
    /\ inst.state = "ok"
    /\ inst' = [inst EXCEPT !.resolution = v]
    /\ out' = NoOut
    /\ lastOp' = "assign"
    /\ ncalls' = 0
    /\ UNCHANGED <<args, built, err, applyVars>>

\* x.command() on a MeasureVoltageDC
CallMeasureVoltageDC_command ==
  /\ inst.state = "ok"
  /\ inst.cls = "MeasureVoltageDC"
  /\ ncalls < MaxCalls
  /\ LET c == MeasureVoltageDC_command(inst.range, inst.resolution)
     IN /\ inst' = [inst EXCEPT !.range = c.range, !.resolution = c.resolution]
        /\ out' = c.ret
  /\ lastOp' = "command"
  /\ ncalls' = ncalls + 1
  /\ UNCHANGED <<args, built, err, applyVars>>

\* x.command() on a ConfigCurrentAC
CallConfigCurrentAC_command ==
  /\ inst.state = "ok"
  /\ inst.cls = "ConfigCurrentAC"
  /\ ncalls < MaxCalls
  /\ LET c == ConfigCurrentAC_command(inst.range, inst.resolution)
     IN /\ inst' = [inst EXCEPT !.range = c.range, !.resolution = c.resolution]
        /\ out' = c.ret
  /\ lastOp' = "command"
  /\ ncalls' = ncalls + 1
  /\ UNCHANGED <<args, built, err, applyVars>>

Next ==
  \/ NewMeasureVoltageDC
  \/ NewConfigCurrentAC
  \/ SetRange
  \/ SetResolution
  \/ CallMeasureVoltageDC_command
  \/ CallConfigCurrentAC_command

Spec == Init /\ [][Next]_vars

\* ------------------------- the functions applied to one pair of inputs
InitApply ==
  /\ args \in [range : AllParams \cup {Missing},
               resolution : AllParams \cup {Missing}]
  /\ inst = NoInst
  /\ built = NoBuilt
  /\ err = NoErr
  /\ out = NoOut
  /\ lastOp = "none"
  /\ ncalls = 0
  /\ vres = NoVres
  /\ mv = NoSlot
  /\ cc = NoSlot

\* _validate_param(args[f], f)
ApplyValidate ==
  \E f \in Fields :
    /\ vres[f].calls = 0
    /\ args[f] # Missing
    /\ LET r == _validate_param(args[f], f)
       IN vres' = [vres EXCEPT ![f] = [calls |-> 1, raised |-> r.raised,
                                       first |-> r.value, value |-> r.value,
                                       err |-> r.err]]
    /\ UNCHANGED <<args, lifeVars, mv, cc>>

\* _validate_param on the value the first call returned
ApplyValidateAgain ==
  \E f \in Fields :
    /\ vres[f].calls = 1
    /\ ~vres[f].raised
    /\ LET r == _validate_param(vres[f].value, f)
       IN vres' = [vres EXCEPT ![f] = [calls |-> 2, raised |-> r.raised,
                                       first |-> vres[f].first,
                                       value |-> r.value, err |-> r.err]]
    /\ UNCHANGED <<args, lifeVars, mv, cc>>

SlotOf(res) ==
  [state |-> IF res.raised THEN "raised" ELSE "ok", range |-> res.range,
   resolution |-> res.resolution, err |-> res.err, out |-> NoOut]

\* MeasureVoltageDC(args.range, args.resolution)
ApplyMeasureVoltageDC ==
  /\ mv.state = "none"
  /\ mv' = SlotOf(MeasureVoltageDC_init(args.range, args.resolution))
  /\ UNCHANGED <<args, lifeVars, vres, cc>>

\* ConfigCurrentAC(args.range, args.resolution)
ApplyConfigCurrentAC ==
  /\ cc.state = "none"
  /\ cc' = SlotOf(ConfigCurrentAC_init(args.range, args.resolution))
  /\ UNCHANGED <<args, lifeVars, vres, mv>>

\* mv.command()
ApplyMeasureVoltageDC_command ==
  /\ mv.state = "ok"
  /\ mv.out = NoOut
  /\ LET c == MeasureVoltageDC_command(mv.range, mv.resolution)
     IN mv' = [mv EXCEPT !.range = c.range, !.resolution = c.resolution,
                         !.out = c.ret]
  /\ UNCHANGED <<args, lifeVars, vres, cc>>

\* cc.command()
ApplyConfigCurrentAC_command ==
  /\ cc.state = "ok"
  /\ cc.out = NoOut
  /\ LET c == ConfigCurrentAC_command(cc.range, cc.resolution)
     IN cc' = [cc EXCEPT !.range = c.range, !.resolution = c.resolution,
                         !.out = c.ret]
  /\ UNCHANGED <<args, lifeVars, vres, mv>>

NextApply ==
  \/ ApplyValidate
  \/ ApplyValidateAgain
  \/ ApplyMeasureVoltageDC
  \/ ApplyConfigCurrentAC
  \/ ApplyMeasureVoltageDC_command
  \/ ApplyConfigCurrentAC_command

SpecApply == InitApply /\ [][NextApply]_vars

\* ------------------------------------------------- vocabulary of claims
\* a strictly positive int or float
PositiveNumber(v) == v.tag \in {"int", "float"} /\ v.n > 0

\* a string that is the given keyword in some mix of letter case
KeywordIn(v, K) == v.tag = "str" /\ v.s \in Mixes(K)

\* a string that is no keyword in any letter case
UnknownKeyword(v) ==
  v.tag = "str" /\ v.s \notin Mixes(KwMIN) \cup Mixes(KwMAX) \cup Mixes(KwDEF)

\* range given as DEF in any letter case, or left at its default
GivenDEF(v) == v = Missing \/ KeywordIn(v, KwDEF)

\* a zero or negative number, or a value that is neither string nor number
BadNumberOrType(v) ==
  \/ v.tag \in {"int", "float"} /\ v.n <= 0
  \/ v.tag \in {"none", "bool", "list"}

\* the prefix of the instance's class
BaseOf(cls) ==
  IF cls = "MeasureVoltageDC" THEN MeasureVoltageDC_base
  ELSE ConfigCurrentAC_base

\* ---------------------------------------------------------------- C1
\* C1: constructing either class with range given as DEF (any letter case,
\* or omitted) and a resolution that is a positive number, MIN or MAX
\* raises the cross-field ValueError and binds no instance; every instance
\* that construction returns has resolution != DEF => range != DEF.
C1_CrossFieldRule ==
  lastOp = "construct" =>
    /\ ( /\ GivenDEF(args.range)
         /\ \/ PositiveNumber(args.resolution)
            \/ KeywordIn(args.resolution, KwMIN)
            \/ KeywordIn(args.resolution, KwMAX) )
       => /\ inst.state = "raised"
          /\ err = CrossErr
          /\ inst.range = Unbound
          /\ inst.resolution = Unbound
    /\ inst.state = "ok" =>
         (inst.resolution # PyStr(KwDEF) => inst.range # PyStr(KwDEF))

\* MeasureVoltageDC(resolution=0.001) has raised the cross-field error
C1_Witness ==
  /\ lastOp = "construct"
  /\ inst.cls = "MeasureVoltageDC"
  /\ args.range = Missing
  /\ args.resolution = PyFloat(1)
  /\ inst.state = "raised"
  /\ err = CrossErr

\* ---------------------------------------------------------------- C2
\* C2: for strictly positive numeric range and resolution, construction
\* succeeds and stores them, and command() returns the prefix, one space,
\* str(range), a comma, str(resolution); MeasureVoltageDC(10.0, 0.001)
\* renders as "MEAS:VOLT:DC? 10.0,0.001".
C2_NumericRender ==
  /\ ( /\ lastOp = "construct"
       /\ PositiveNumber(args.range)
       /\ PositiveNumber(args.resolution) )
     => /\ inst.state = "ok"
        /\ inst.range = args.range
        /\ inst.resolution = args.resolution
  /\ ( /\ lastOp = "command"
       /\ PositiveNumber(inst.range)
       /\ PositiveNumber(inst.resolution) )
     => out = BaseOf(inst.cls) \o <<" ">> \o Str(inst.range) \o <<",">>
                \o Str(inst.resolution)
  /\ ( /\ lastOp = "command"
       /\ inst.cls = "MeasureVoltageDC"
       /\ inst.range = PyFloat(10000)
       /\ inst.resolution = PyFloat(1) )
     => out = <<"M", "E", "A", "S", ":", "V", "O", "L", "T", ":", "D", "C",
                "?", " ", "1", "0", ".", "0", ",", "0", ".", "0", "0", "1">>

\* MeasureVoltageDC(range=10.0, resolution=0.001).command() has returned
C2_Witness ==
  /\ lastOp = "command"
  /\ inst.cls = "MeasureVoltageDC"
  /\ args.range = PyFloat(10000)
  /\ args.resolution = PyFloat(1)
  /\ inst.range = PyFloat(10000)
  /\ inst.resolution = PyFloat(1)
  /\ Len(out) = 24

\* ---------------------------------------------------------------- C3
\* C3: whenever command() has been called, its result is the bare prefix
\* if both fields are DEF, and otherwise the prefix, one space and the
\* fields that are not DEF, range before resolution, joined by one comma;
\* the result never ends in a space or a comma and no argument is DEF.
C3_RenderGrammar ==
  lastOp = "command" =>
    LET base == BaseOf(inst.cls)
        r == inst.range
        s == inst.resolution
        tail == SubSeq(out, Len(base) + 2, Len(out))
    IN /\ out = IF EqDEF(r) /\ EqDEF(s) THEN base
                ELSE IF EqDEF(s) THEN base \o <<" ">> \o Str(r)
                ELSE IF EqDEF(r) THEN base \o <<" ">> \o Str(s)
                ELSE base \o <<" ">> \o Str(r) \o <<",">> \o Str(s)
       /\ out[Len(out)] \notin {" ", ","}
       /\ ~ \E i \in 1..Len(tail), j \in 1..Len(tail) :
              /\ SubSeq(tail, i, j) = KwDEF
              /\ i = 1 \/ tail[i - 1] = ","
              /\ j = Len(tail) \/ tail[j + 1] = ","

\* ---------------------------------------------------------------- C5
\* C5: constructing with a string that is no keyword in any letter case
\* raises; the error names the field that held it (range, or resolution
\* when range is acceptable) and carries the string as the caller gave it.
C5_BadKeywordError ==
  lastOp = "construct" =>
    /\ UnknownKeyword(args.range) =>
         /\ inst.state = "raised"
         /\ err.name = "range"
         /\ err.value = args.range.s
    /\ UnknownKeyword(args.resolution) =>
         /\ inst.state = "raised"
         /\ ( \/ GivenDEF(args.range)
              \/ KeywordIn(args.range, KwMIN)
              \/ KeywordIn(args.range, KwMAX)
              \/ PositiveNumber(args.range) )
            => /\ err.name = "resolution"
               /\ err.value = args.resolution.s

\* ---------------------------------------------------------------- C6
\* C6: construction raises whenever a field is a number <= 0 or is neither
\* a string nor a number (None, a boolean, a container); every field of a
\* constructed instance is a strictly positive number or MIN, MAX or DEF.
C6_FieldDomain ==
  lastOp = "construct" =>
    /\ (BadNumberOrType(args.range) \/ BadNumberOrType(args.resolution))
         => inst.state = "raised"
    /\ inst.state = "ok" =>
         \A v \in {inst.range, inst.resolution} :
           \/ PositiveNumber(v)
           \/ v.tag = "str" /\ v.s \in {KwMIN, KwMAX, KwDEF}

\* ---------------------------------------------------------------- C7
\* C7: with range DEF and a malformed resolution (unknown keyword,
\* non-positive number, wrong type) the error is the per-field error naming
\* resolution, never the cross-field error; with both fields malformed the
\* error names range.
C7_DiagnosticPrecedence ==
  lastOp = "construct" =>
    /\ ( /\ GivenDEF(args.range)
         /\ UnknownKeyword(args.resolution) \/ BadNumberOrType(args.resolution) )
       => /\ inst.state = "raised"
          /\ err # CrossErr
          /\ err.name = "resolution"
    /\ ( /\ UnknownKeyword(args.range) \/ BadNumberOrType(args.range)
         /\ UnknownKeyword(args.resolution) \/ BadNumberOrType(args.resolution) )
       => /\ inst.state = "raised"
          /\ err.name = "range"

\* ---------------------------------------------------------------- C8
\* C8: a constructed instance keeps the field values validated at
\* construction through every operation of the caller, so the cross-field
\* rule holds whenever command() is called.
C8_Immutable ==
  inst.state = "ok" =>
    /\ inst.range = built.range
    /\ inst.resolution = built.resolution
    /\ lastOp = "command" =>
         (inst.resolution # PyStr(KwDEF) => inst.range # PyStr(KwDEF))

\* ---------------------------------------------------------------- C10
\* C10: command() leaves range and resolution unchanged, and a call that
\* directly follows another call on the same instance returns the same
\* string.
C10_CommandPure ==
  [][ lastOp' = "command" =>
        /\ inst'.range = inst.range
        /\ inst'.resolution = inst.resolution
        /\ inst'.cls = inst.cls
        /\ lastOp = "command" => out' = out ]_vars

\* command() has been called twice in a row and rendered two arguments
C10_Witness ==
  /\ lastOp = "command"
  /\ ncalls = 2
  /\ PositiveNumber(inst.range)
  /\ inst.resolution = PyStr(KwMIN)
  /\ Len(out) > Len(BaseOf(inst.cls))

\* ---------------------------------------------------------------- C4
\* C4: for every string that is MIN, MAX or DEF in some mix of letter
\* case, _validate_param returns that keyword in upper case; an instance
\* built from such strings stores the upper-case keywords, and
\* ConfigCurrentAC("min", "max").command() is "CONF:CURR:AC MIN,MAX";
\* validating a value that _validate_param returned returns it unchanged.
C4_KeywordNormalization ==
  /\ \A f \in Fields :
       /\ \A K \in {KwMIN, KwMAX, KwDEF} :
            KeywordIn(args[f], K) =>
              /\ vres[f].calls >= 1 =>
                   ~vres[f].raised /\ vres[f].first = PyStr(K)
              /\ mv.state = "ok" => mv[f] = PyStr(K)
              /\ cc.state = "ok" => cc[f] = PyStr(K)
       /\ vres[f].calls = 2 =>
            ~vres[f].raised /\ vres[f].value = vres[f].first
  /\ ( /\ args.range = PyStr(<<"m", "i", "n">>)
       /\ args.resolution = PyStr(<<"m", "a", "x">>)
       /\ cc.state # "none" )
     => /\ cc.state = "ok"
        /\ cc.out # NoOut =>
             cc.out = <<"C", "O", "N", "F", ":", "C", "U", "R", "R", ":", "A",
                        "C", " ", "M", "I", "N", ",", "M", "A", "X">>

\* "mIn" was validated twice and ConfigCurrentAC("mIn", "max") rendered
C4_Witness ==
  /\ args.range = PyStr(<<"m", "I", "n">>)
  /\ args.resolution = PyStr(<<"m", "a", "x">>)
  /\ vres["range"].calls = 2
  /\ vres["range"].value = PyStr(KwMIN)
  /\ cc.state = "ok"
  /\ cc.range = PyStr(KwMIN)
  /\ Len(cc.out) = 20

\* ---------------------------------------------------------------- C9
\* C9: built from the same arguments, MeasureVoltageDC and ConfigCurrentAC
\* both succeed or both raise, raise the same error, hold the same fields,
\* and their command() results are the two prefixes followed by the same
\* text.
C9_VariantsEquivalent ==
  (mv.state # "none" /\ cc.state # "none") =>
    /\ mv.state = cc.state
    /\ mv.err = cc.err
    /\ mv.range = cc.range
    /\ mv.resolution = cc.resolution
    /\ (mv.out # NoOut /\ cc.out # NoOut) =>
         /\ SubSeq(mv.out, 1, 13) =
              <<"M", "E", "A", "S", ":", "V", "O", "L", "T", ":", "D", "C", "?">>
         /\ SubSeq(cc.out, 1, 12) =
              <<"C", "O", "N", "F", ":", "C", "U", "R", "R", ":", "A", "C">>
         /\ SubSeq(mv.out, 14, Len(mv.out)) = SubSeq(cc.out, 13, Len(cc.out))

\* both classes were built from (10.0, "Max") and both rendered
C9_Witness ==
  /\ args.range = PyFloat(10000)
  /\ args.resolution = PyStr(<<"M", "a", "x">>)
  /\ mv.state = "ok"
  /\ cc.state = "ok"
  /\ Len(mv.out) = 22
  /\ Len(cc.out) = 21

====
